---------------------------- MODULE Spec2Model ----------------------------
(***************************************************************************)
(* A model of analyze_corpus.py: the ProjectGutenbergText document (body   *)
(* and metadata extraction, preprocessing, the frequency, sentiment, style *)
(* and topic analyzers, analyze) and the analyze_corpus batch loop.        *)
(*                                                                         *)
(* Text is a sequence of symbols.  A symbol is a word ("cat"), or one of   *)
(* the tokens that the code searches for as a literal: "START" and "END"   *)
(* (the two marker literals of _extract_body), "NL" (newline), "SP" (a     *)
(* blank), "BOM" (U+FEFF), "DOT" (a full stop), "LB" (an opening square    *)
(* bracket), "TL", "AU", "RD" and "LG" (the labels Title:, Author:,         *)
(* Release date: and Language:).  A file name pg<digits>.txt is the        *)
(* sequence of its digits, and so is its stem, the document's pg_id.       *)
(* Indices are Python's: the first symbol of a text has index 0.           *)
(***************************************************************************)
EXTENDS Integers, Sequences, FiniteSets, TLC

VARIABLES
    pc,            \* where the run is
    raw_content,   \* ProjectGutenbergText.raw_content
    metadata,      \* ProjectGutenbergText.metadata
    body_text,     \* ProjectGutenbergText.body_text
    tokens,        \* the token sequence handed to an analyzer
    n_topics,      \* extract_topics' n_topics
    n_words,       \* extract_topics' n_words
    fault,         \* the call that raises in this run ("none": no call does)
    result,        \* what the operation returned
    discovered,    \* the file names the glob finds
    text_files,    \* analyze_corpus' text_files
    idx,           \* how many files the for loop has taken
    total_texts,   \* results['corpus_info']['total_texts']
    texts,         \* results['texts']
    attempts       \* the files the loop body has run for, with what raised

vars == <<pc, raw_content, metadata, body_text, tokens, n_topics, n_words,
          fault, result, discovered, text_files, idx, total_texts, texts,
          attempts>>

docVars == <<raw_content, metadata, body_text>>
callVars == <<tokens, n_topics, n_words, fault>>
corpusVars == <<discovered, text_files, idx, total_texts, texts, attempts>>

(***************************************************************************)
(* Bounds of the model.                                                    *)
(***************************************************************************)
MaxBodyRaw == 6
MaxMetaRaw == 5
MaxBagLen == 4
MaxDistinct == 52
MaxExtra == 2
MaxStyleBody == 3
MaxStyleTokens == 3
MaxSentences == 4
MaxTopics == 3
MaxWords == 2
MaxAnalyzeRaw == 4
MaxFiles == 3

(***************************************************************************)
(* Values.                                                                 *)
(***************************************************************************)
\* Python's None, and a value that is present.
None == <<>>
Some(v) == <<v>>

\* A call that returned v, and a call that raised.
Ok(v) == [ok |-> TRUE, val |-> v]
Raise(e) == [ok |-> FALSE, exc |-> e]

\* All sequences over S of length at most n.
SeqsUpTo(S, n) == UNION {[1..k -> S] : k \in 0..n}

Min(S) == CHOOSE x \in S : \A y \in S : x <= y
Max(S) == CHOOSE x \in S : \A y \in S : x >= y

(***************************************************************************)
(* str: find, slicing, strip, lstrip.                                      *)
(***************************************************************************)
Whitespace == {"SP", "NL"}

\* s.find(sym, from): the lowest index >= from holding sym, or -1.
find(s, sym, from) ==
    LET hits == {i \in from..(Len(s) - 1) : s[i + 1] = sym}
    IN  IF hits = {} THEN -1 ELSE Min(hits)

\* s[a:b] for 0 <= a, 0 <= b <= len(s).
Slice(s, a, b) == SubSeq(s, a + 1, b)

\* s.lstrip(chars): s without its leading symbols that are in chars.
lstrip(s, chars) ==
    LET keep == {i \in 1..Len(s) : s[i] \notin chars}
    IN  IF keep = {} THEN <<>> ELSE SubSeq(s, Min(keep), Len(s))

\* s.rstrip(chars)
rstrip(s, chars) ==
    LET keep == {i \in 1..Len(s) : s[i] \notin chars}
    IN  IF keep = {} THEN <<>> ELSE SubSeq(s, 1, Max(keep))

\* s.strip(): U+FEFF is not whitespace to Python.
strip(s) == rstrip(lstrip(s, Whitespace), Whitespace)

(***************************************************************************)
(* ProjectGutenbergText._extract_body                                      *)
(***************************************************************************)
\* The branch taken when both markers are found.
body_between(raw, start_idx, end_idx) ==
    LET start2 == find(raw, "NL", start_idx) + 1
        body == strip(Slice(raw, start2, end_idx))
    IN  lstrip(body, {"BOM"})

\* _extract_body falling back on the whole text when a marker is missing.
_extract_body_or_all(raw) ==
    LET start_idx == find(raw, "START", 0)
        end_idx == find(raw, "END", 0)
    IN  IF start_idx # -1 /\ end_idx # -1
        THEN body_between(raw, start_idx, end_idx)
        ELSE strip(raw)

_extract_body(raw) ==
    LET start_idx == find(raw, "START", 0)
        end_idx == find(raw, "END", 0)
    IN  IF start_idx # -1 /\ end_idx # -1
        THEN body_between(raw, start_idx, end_idx)
        ELSE <<>>

(***************************************************************************)
(* ProjectGutenbergText._extract_metadata: re.search of the two patterns   *)
(*   Title:\s*(.+)          Release date:\s*(.+?)(?:\[|$)                  *)
(* compiled without re.MULTILINE and without re.DOTALL.                    *)
(***************************************************************************)
\* "." matches any symbol but a newline.
IsDot(raw, i) == i >= 1 /\ i <= Len(raw) /\ raw[i] # "NL"

\* \s matches a blank or a newline.
IsSpace(raw, i) == i >= 1 /\ i <= Len(raw) /\ raw[i] \in Whitespace

\* "$" at the position before raw[q]: the end of the string, or just before
\* a newline that ends the string.
AtDollar(raw, q) == q = Len(raw) + 1 \/ (q = Len(raw) /\ raw[q] = "NL")

\* The numbers of symbols \s* can take after the label at position p.
SpaceRuns(raw, p) ==
    {k \in 0..(Len(raw) - p) : \A i \in (p + 1)..(p + k) : IsSpace(raw, i)}

\* The lengths m >= 1 that (.+?) can take from position q on so that the
\* rest of the date pattern, (?:\[|$), matches after it.
DateRuns(raw, q) ==
    {m \in 1..(Len(raw) - q + 1) :
        /\ \A i \in q..(q + m - 1) : IsDot(raw, i)
        /\ \/ (q + m <= Len(raw) /\ raw[q + m] = "LB")
           \/ AtDollar(raw, q + m)}

\* group(1) of the date pattern's match: the leftmost label from which the
\* pattern matches, the longest \s* from which it still matches (greedy),
\* the shortest (.+?) after that (lazy).
date_match(raw) ==
    LET starts == {p \in 1..Len(raw) :
                      /\ raw[p] = "RD"
                      /\ \E k \in SpaceRuns(raw, p) : DateRuns(raw, p + k + 1) # {}}
    IN  IF starts = {} THEN None
        ELSE LET p == Min(starts)
                 k == Max({j \in SpaceRuns(raw, p) : DateRuns(raw, p + j + 1) # {}})
                 m == Min(DateRuns(raw, p + k + 1))
             IN  Some(SubSeq(raw, p + k + 1, p + k + m))

\* The lengths m >= 1 that (.+) can take from position q on.
LineRuns(raw, q) ==
    {m \in 1..(Len(raw) - q + 1) : \A i \in q..(q + m - 1) : IsDot(raw, i)}

\* group(1) of the match of label\s*(.+), the pattern of the title, the
\* author and the language: greedy \s*, then greedy (.+).
label_match(raw, label) ==
    LET starts == {p \in 1..Len(raw) :
                      /\ raw[p] = label
                      /\ \E k \in SpaceRuns(raw, p) : LineRuns(raw, p + k + 1) # {}}
    IN  IF starts = {} THEN None
        ELSE LET p == Min(starts)
                 k == Max({j \in SpaceRuns(raw, p) : LineRuns(raw, p + j + 1) # {}})
                 m == Max(LineRuns(raw, p + k + 1))
             IN  Some(SubSeq(raw, p + k + 1, p + k + m))

\* metadata[field] = match.group(1).strip() if match, else None.
Stripped(match) == IF match = None THEN None ELSE Some(strip(match[1]))

_extract_metadata(pg_id, raw) ==
    [pg_id |-> pg_id,
     title |-> Stripped(label_match(raw, "TL")),
     author |-> Stripped(label_match(raw, "AU")),
     release_date |-> Stripped(date_match(raw)),
     language |-> Stripped(label_match(raw, "LG"))]

(***************************************************************************)
(* Numbers.  A float is kept as an exact fraction <<numerator,             *)
(* denominator>>; Python's 0 is <<0, 1>>.  A value rounded by round(x, d)  *)
(* is kept as the integer x * 10^d.                                        *)
(***************************************************************************)
Zero == <<0, 1>>
Frac(a, b) == <<a, b>>
FracEq(p, q) == p[1] * q[2] = q[1] * p[2]

\* round(num / den, d) * 10^d for num >= 0, den > 0 and scale = 10^d: the
\* nearest integer to num * scale / den, a tie going to the even one.
RoundScaled(num, den, scale) ==
    LET q == (num * scale) \div den
        r == (num * scale) % den
    IN  IF 2 * r < den THEN q
        ELSE IF 2 * r > den THEN q + 1
        ELSE IF q % 2 = 0 THEN q ELSE q + 1

\* The sum of f over the sequence xs.
RECURSIVE SumSeq(_, _)
SumSeq(xs, n) == IF n = 0 THEN 0 ELSE SumSeq(xs, n - 1) + xs[n]

Range(s) == {s[i] : i \in 1..Len(s)}

(***************************************************************************)
(* The linguistic resources: nltk's word_tokenize, sent_tokenize,          *)
(* stopwords and WordNetLemmatizer, str.lower and str.isalpha, on the      *)
(* words of the model.                                                     *)
(***************************************************************************)
\* str.lower()
lower(sym) == IF sym = "The" THEN "the" ELSE sym

\* str.isalpha(): the symbols that are words made of letters.
Symbols == {"START", "END", "NL", "SP", "BOM", "DOT", "LB", "TL", "AU", "RD", "LG"}
NonAlpha == Symbols \cup {"42"}
isalpha(tok) == tok \notin NonAlpha

\* set(stopwords.words('english'))
stop_words == {"the"}

\* WordNetLemmatizer().lemmatize(token)
lemmatize(tok) == IF tok = "cats" THEN "cat" ELSE tok

\* word_tokenize(text): the symbols of the text that are not whitespace,
\* the punctuation among them.
IsToken(sym) == sym \notin Whitespace

word_tokenize(text) == SelectSeq(text, IsToken)

\* text.lower()
lower_text(text) == [i \in 1..Len(text) |-> lower(text[i])]

\* The sentences as one lowercased text, a blank between two sentences.
RECURSIVE Joined(_, _)
Joined(sentences, n) ==
    IF n = 0 THEN <<>>
    ELSE Joined(sentences, n - 1) \o <<"SP">> \o lower_text(sentences[n])

lower_text_all(sentences) == Joined(sentences, Len(sentences))

\* sent_tokenize(text): the text cut after each full stop, each piece
\* without the whitespace around it, the empty pieces left out.
\* (i: the symbol looked at, from: where the open piece starts, acc: the
\* sentences closed so far.)
RECURSIVE SentencesFrom(_, _, _, _)
SentencesFrom(text, i, from, acc) ==
    IF i > Len(text) THEN acc
    ELSE IF text[i] = "DOT" \/ i = Len(text)
         THEN LET piece == strip(SubSeq(text, from, i))
              IN  SentencesFrom(text, i + 1, i + 1,
                                IF piece = <<>> THEN acc ELSE Append(acc, piece))
         ELSE SentencesFrom(text, i + 1, from, acc)

sent_tokenize(text) == SentencesFrom(text, 1, 1, <<>>)

(***************************************************************************)
(* ProjectGutenbergText.preprocess                                         *)
(***************************************************************************)
\* token.isalpha() and token not in self.stop_words and len(token) > 2
IsContentWord(tok) == isalpha(tok) /\ tok \notin stop_words /\ Len(tok) > 2

preprocess(body) ==
    LET kept == SelectSeq(word_tokenize(lower_text(body)), IsContentWord)
    IN  [i \in 1..Len(kept) |-> lemmatize(kept[i])]

(***************************************************************************)
(* collections.Counter and ProjectGutenbergText.build_bag_of_words         *)
(***************************************************************************)
\* The number of top words build_bag_of_words asks most_common for.
TopN == 50

\* Counter(toks): the distinct tokens in the order they are first met (a
\* dict keeps insertion order), and each one's number of occurrences.
Counter(toks) ==
    LET IsFirst(i) == \A j \in 1..(i - 1) : toks[j] # toks[i]
        firsts == SelectSeq([i \in 1..Len(toks) |-> i], IsFirst)
        keys == [r \in 1..Len(firsts) |-> toks[firsts[r]]]
    IN  [keys |-> keys,
         count |-> [w \in Range(keys) |->
                       Cardinality({i \in 1..Len(toks) : toks[i] = w})]]

\* sorted(items, key=count, reverse=True): a stable sort, so the items of
\* the greatest count come first, in the order they have in keys, then those
\* of the next count, and so on.  (cs: the counts not placed yet.)
RECURSIVE SortedFrom(_, _, _)
SortedFrom(keys, count, cs) ==
    IF cs = {} THEN <<>>
    ELSE LET c == Max(cs)
             HasCount(w) == count[w] = c
         IN  SelectSeq(keys, HasCount) \o SortedFrom(keys, count, cs \ {c})

SortedByCount(keys, count) ==
    SortedFrom(keys, count, {count[w] : w \in Range(keys)})

\* list(counter.items())[:n]: the first n items in the order met.
first_items(counter, n) ==
    SubSeq(counter.keys, 1, IF Len(counter.keys) < n THEN Len(counter.keys) ELSE n)

\* Counter.most_common(n) = heapq.nlargest(n, items, key=count), which is
\* sorted(items, key=count, reverse=True)[:n].
most_common(counter, n) ==
    LET s == SortedByCount(counter.keys, counter.count)
    IN  SubSeq(s, 1, IF Len(s) < n THEN Len(s) ELSE n)

\* len(set(tokens))
distinct_words_of(toks) == Cardinality(Range(toks))

\* len(tokens) in build_bag_of_words
total_words_of(toks) == Len(toks)

build_bag_of_words(toks) ==
    LET word_counts == Counter(toks)
        total_words == total_words_of(toks)
        top == most_common(word_counts, TopN)
    IN  [top_words |->
            [i \in 1..Len(top) |->
                [word |-> top[i],
                 count |-> word_counts.count[top[i]],
                 frequency |-> IF total_words > 0
                               THEN Frac(word_counts.count[top[i]], total_words)
                               ELSE Zero]],
         word_frequencies |-> word_counts.count]

(***************************************************************************)
(* Operations that raise.  A number that could not be computed is the      *)
(* one-element tuple naming the exception.                                 *)
(***************************************************************************)
Raised(x) == Len(x) = 1

\* a / b
Div(a, b) == IF b = 0 THEN <<"ZeroDivisionError">> ELSE Frac(a, b)

\* a / b without the test on b.
unguarded_ratio(a, b) == Div(a, b)

\* a / b if b > 0 else 0
ratio_or_zero(a, b) == IF b > 0 THEN Div(a, b) ELSE Zero

\* round(x, d) * 10^d, scale = 10^d; an exception passes through.
Rounded(x, scale) == IF Raised(x) THEN x ELSE RoundScaled(x[1], x[2], scale)

\* numpy.mean, numpy.min and numpy.max of a sequence of integers xs counted
\* in units of 1/unit.  numpy.var is numpy.std squared: the model keeps the
\* square.  On an empty sequence min and max raise ValueError, mean and std
\* give nan (<<0, 0>>).
np_mean(xs, unit) == Frac(SumSeq(xs, Len(xs)), Len(xs) * unit)
np_min(xs, unit) ==
    IF xs = <<>> THEN <<"ValueError">> ELSE Frac(Min(Range(xs)), unit)
np_max(xs, unit) ==
    IF xs = <<>> THEN <<"ValueError">> ELSE Frac(Max(Range(xs)), unit)
np_var(xs, unit) ==
    LET n == Len(xs)
        sq == [i \in 1..n |-> xs[i] * xs[i]]
    IN  Frac(n * SumSeq(sq, n) - SumSeq(xs, n) * SumSeq(xs, n),
             n * n * unit * unit)

(***************************************************************************)
(* vaderSentiment's polarity_scores on the words of the model: the sum of  *)
(* the words' valences, normalised as VADER does (x / sqrt(x^2 + 15)) and  *)
(* counted in hundredths; pos, neg and neu are the shares of the words of  *)
(* each sign.                                                              *)
(***************************************************************************)
valence(tok) == IF tok = "good" THEN 1 ELSE IF tok = "bad" THEN -1 ELSE 0

\* The hundredths in |x| / sqrt(x^2 + 15), rounded down.
Normalized(x) ==
    LET c == Max({k \in 0..100 : k * k * (x * x + 15) <= 10000 * x * x})
    IN  IF x < 0 THEN -c ELSE c

polarity_scores(text) ==
    LET toks == word_tokenize(text)
        n == Len(toks)
        vals == [i \in 1..n |-> valence(toks[i])]
        share(S) == IF n = 0 THEN Zero
                    ELSE Frac(Cardinality({i \in 1..n : vals[i] \in S}), n)
    IN  [compound |-> Normalized(SumSeq(vals, n)),
         pos |-> share({1}),
         neg |-> share({-1}),
         neu |-> share({0})]

(***************************************************************************)
(* ProjectGutenbergText._classify_sentiment and analyze_sentiment          *)
(***************************************************************************)
\* compound_score is counted in hundredths: 0.05 is 5.
_classify_sentiment(compound_score) ==
    IF compound_score >= 5 THEN "positive"
    ELSE IF compound_score <= -5 THEN "negative"
    ELSE "neutral"

analyze_sentiment(body) ==
    LET scores == polarity_scores(body)
        sentences == SelectSeq(sent_tokenize(body), LAMBDA sent : strip(sent) # <<>>)
        sentence_sentiments ==
            [i \in 1..Len(sentences) |-> polarity_scores(sentences[i]).compound]
        some == sentence_sentiments # <<>>
        min == IF some THEN np_min(sentence_sentiments, 100) ELSE Zero
        max == IF some THEN np_max(sentence_sentiments, 100) ELSE Zero
    IN  IF Raised(min) \/ Raised(max) THEN Raise("ValueError")
        ELSE Ok([compound |-> scores.compound,
                 positive |-> scores.pos,
                 negative |-> scores.neg,
                 neutral |-> scores.neu,
                 classification |-> _classify_sentiment(scores.compound),
                 sentence_sentiments |->
                     [mean |-> IF some THEN np_mean(sentence_sentiments, 100) ELSE Zero,
                      std |-> IF some THEN np_var(sentence_sentiments, 100) ELSE Zero,
                      min |-> min,
                      max |-> max]])

(***************************************************************************)
(* ProjectGutenbergText.analyze_style.  The rounded values are integers:   *)
(* the ratios in ten-thousandths (round(x, 4)), the lengths in hundredths  *)
(* (round(x, 2)).                                                          *)
(***************************************************************************)
analyze_style(body, toks) ==
    LET all_tokens == word_tokenize(lower_text(body))
        all_words == SelectSeq(all_tokens, isalpha)
        sentences == sent_tokenize(body)
        unique_words == Cardinality(Range(toks))
        total_words == Len(toks)
        ttr == ratio_or_zero(unique_words, total_words)
        unique_all == Cardinality(Range(all_words))
        total_all == Len(all_words)
        lengths == [i \in 1..Len(toks) |-> Len(toks[i])]
        avg_word_length == IF toks # <<>> THEN np_mean(lengths, 1) ELSE Zero
        avg_sentence_length ==
            IF sentences # <<>> THEN Div(Len(all_words), Len(sentences)) ELSE Zero
        richness == ratio_or_zero(unique_all, total_all)
    IN  IF Raised(ttr) \/ Raised(avg_sentence_length) \/ Raised(richness)
        THEN Raise("ZeroDivisionError")
        ELSE Ok([type_token_ratio |-> Rounded(ttr, 10000),
                 unique_words |-> unique_words,
                 total_words |-> total_words,
                 unique_words_all |-> unique_all,
                 total_words_all |-> total_all,
                 avg_word_length |-> Rounded(avg_word_length, 100),
                 avg_sentence_length |-> Rounded(avg_sentence_length, 100),
                 total_sentences |-> Len(sentences),
                 vocabulary_richness |-> Rounded(richness, 10000)])

(***************************************************************************)
(* ProjectGutenbergText.extract_topics.  flt names the call that raises    *)
(* in this run.  The result carries, beside what the call returns (ret),   *)
(* whether the try block with the vectorizer's and the model's fit was     *)
(* entered (fit_attempted).                                                *)
(***************************************************************************)
\* The terms CountVectorizer(stop_words='english') takes from a sentence:
\* its lowercased words of two or more letters or digits that are no stop
\* words.
IsTerm(tok) ==
    /\ tok \notin Symbols
    /\ Len(tok) >= 2
    /\ tok \notin stop_words

terms_of(sentence) == SelectSeq(lower_text(sentence), IsTerm)

\* The number of sentences a term must occur in: min_df.
MinDf == 2

\* The vocabulary of vectorizer.fit_transform(sentences) with its term
\* counts: the terms found in at least MinDf sentences.  (max_features =
\* 1000 cuts nothing from the texts of the model.)
vectorize(sentences) ==
    LET all == Counter(word_tokenize(lower_text_all(sentences)))
        df(t) == Cardinality({i \in 1..Len(sentences) :
                                  t \in Range(terms_of(sentences[i]))})
        InVocabulary(t) == IsTerm(t) /\ df(t) >= MinDf
    IN  [keys |-> SelectSeq(all.keys, InVocabulary), count |-> all.count]

\* The topics read off a fitted model of nt components: each component's
\* nw heaviest terms and the weight of the heaviest.  (The weights are
\* LDA's; the model takes a term's count for its weight in every topic.)
topics_of(vocabulary, nt, nw) ==
    LET top == most_common(vocabulary, nw)
    IN  [topic_idx \in 1..nt |->
            [topic_id |-> topic_idx,
             words |-> top,
             weight |-> Frac(vocabulary.count[top[1]], 1)]]

\* if len(sentences) <= n_topics
too_few_or_as_many_sentences(sentences, nt) == Len(sentences) <= nt

\* if len(sentences) < n_topics
too_few_sentences(sentences, nt) == Len(sentences) < nt

\* extract_topics without its try: what the fit raises propagates.
extract_topics_without_try(body, nt, nw, flt) ==
    IF flt = "topics.sent_tokenize"
    THEN [ret |-> Raise(flt), fit_attempted |-> FALSE]
    ELSE LET sentences == sent_tokenize(body)
             vocabulary == vectorize(sentences)
         IN  IF too_few_sentences(sentences, nt)
             THEN [ret |-> Ok(<<>>), fit_attempted |-> FALSE]
             ELSE IF flt \in {"topics.fit_transform", "topics.fit"}
                  THEN [ret |-> Raise(flt), fit_attempted |-> TRUE]
                  ELSE IF vocabulary.keys = <<>>
                  THEN [ret |-> Raise("ValueError"), fit_attempted |-> TRUE]
                  ELSE [ret |-> Ok(topics_of(vocabulary, nt, nw)),
                        fit_attempted |-> TRUE]

extract_topics(body, nt, nw, flt) ==
    IF flt = "topics.sent_tokenize"
    THEN [ret |-> Raise(flt), fit_attempted |-> FALSE]
    ELSE LET sentences == sent_tokenize(body)
             vocabulary == vectorize(sentences)
         IN  IF too_few_sentences(sentences, nt)
             THEN [ret |-> Ok(<<>>), fit_attempted |-> FALSE]
             ELSE IF \/ flt \in {"topics.fit_transform", "topics.fit"}
                     \/ vocabulary.keys = <<>>
                  \* except Exception: return []
                  THEN [ret |-> Ok(<<>>), fit_attempted |-> TRUE]
                  ELSE [ret |-> Ok(topics_of(vocabulary, nt, nw)),
                        fit_attempted |-> TRUE]

(***************************************************************************)
(* ProjectGutenbergText.__init__ and analyze.  flt names the call that     *)
(* raises in this run: "read_text", "preprocess", "build_bag_of_words",    *)
(* "analyze_sentiment", "analyze_style", "topics.sent_tokenize",           *)
(* "topics.fit_transform", "topics.fit", or "none".                        *)
(***************************************************************************)
Faults ==
    {"none", "read_text", "preprocess", "build_bag_of_words",
     "analyze_sentiment", "analyze_style", "topics.sent_tokenize",
     "topics.fit_transform", "topics.fit"}

\* The defaults of extract_topics' n_topics and n_words.
DefaultTopics == 3
DefaultWords == 8

\* ProjectGutenbergText(filepath), raw being what the file holds.
NewDocument(stem, raw, flt) ==
    IF flt = "read_text" THEN Raise(flt)
    ELSE Ok([pg_id |-> stem,
             raw_content |-> raw,
             metadata |-> _extract_metadata(stem, raw),
             body_text |-> _extract_body(raw)])

\* call, unless it is the one that raises.
Call(site, flt, call) == IF flt = site THEN Raise(site) ELSE call

analyze(doc, flt) ==
    LET toks == Call("preprocess", flt, Ok(preprocess(doc.body_text)))
        bag == Call("build_bag_of_words", flt, Ok(build_bag_of_words(toks.val)))
        sentiment == Call("analyze_sentiment", flt, analyze_sentiment(doc.body_text))
        style == Call("analyze_style", flt, analyze_style(doc.body_text, toks.val))
        topics == extract_topics(doc.body_text, DefaultTopics, DefaultWords, flt).ret
    IN  IF ~toks.ok THEN toks
        ELSE IF ~bag.ok THEN bag
        ELSE IF ~sentiment.ok THEN sentiment
        ELSE IF ~style.ok THEN style
        ELSE IF ~topics.ok THEN topics
        ELSE Ok([id |-> doc.pg_id,
                 metadata |-> doc.metadata,
                 top_words |-> bag.val.top_words,
                 word_frequencies |-> bag.val.word_frequencies,
                 sentiment |-> sentiment.val,
                 style_metrics |-> style.val,
                 topics |-> topics.val])

(***************************************************************************)
(* analyze_corpus: sorted(corpus_path.glob('pg*.txt')).  Paths compare as  *)
(* their strings do: at the first place where two names differ the lower   *)
(* character decides, and "." is lower than every digit, so a name whose   *)
(* digits start another's comes first.                                     *)
(***************************************************************************)
LexLess(a, b) ==
    \E k \in 1..(Len(a) + 1) :
        /\ k <= Len(b)
        /\ \A i \in 1..(k - 1) : a[i] = b[i]
        /\ (k = Len(a) + 1 \/ a[k] < b[k])

\* The number the digits of a name spell.
RECURSIVE NumberOf(_, _)
NumberOf(a, n) == IF n = 0 THEN 0 ELSE 10 * NumberOf(a, n - 1) + a[n]

NumLess(a, b) == NumberOf(a, Len(a)) < NumberOf(b, Len(b))

\* The files ordered by the number in their name.
sorted_by_number(files) ==
    [r \in 1..Cardinality(files) |->
        CHOOSE f \in files :
            Cardinality({g \in files : NumLess(g, f)}) = r - 1]

\* sorted(files)
sorted(files) ==
    [r \in 1..Cardinality(files) |->
        CHOOSE f \in files :
            Cardinality({g \in files : LexLess(g, f)}) = r - 1]

(***************************************************************************)
(* Values of the variables an operation does not use.                      *)
(***************************************************************************)
NoMetadata ==
    [pg_id |-> <<>>, title |-> None, author |-> None, release_date |-> None,
     language |-> None]

IdleDoc ==
    /\ raw_content = <<>>
    /\ metadata = NoMetadata
    /\ body_text = <<>>

IdleCall ==
    /\ tokens = <<>>
    /\ n_topics = 0
    /\ n_words = 0
    /\ fault = "none"

IdleCorpus ==
    /\ discovered = {}
    /\ text_files = <<>>
    /\ idx = 0
    /\ total_texts = 0
    /\ texts = <<>>
    /\ attempts = <<>>

(***************************************************************************)
(* Body extraction on every short raw text.                                *)
(***************************************************************************)
BodyAlphabet == {"START", "END", "NL", "SP", "BOM", "cat"}

InitBody ==
    /\ pc = "raw"
    /\ raw_content \in SeqsUpTo(BodyAlphabet, MaxBodyRaw)
    /\ metadata = NoMetadata
    /\ body_text = <<>>
    /\ result = None
    /\ IdleCall
    /\ IdleCorpus

\* self.body_text = self._extract_body()
ExtractBody ==
    /\ pc = "raw"
    /\ body_text' = _extract_body(raw_content)
    /\ pc' = "body"
    /\ UNCHANGED <<raw_content, metadata, result, callVars, corpusVars>>

SpecBody == InitBody /\ [][ExtractBody]_vars

(***************************************************************************)
(* Metadata extraction on every short header text.                         *)
(***************************************************************************)
MetaAlphabet == {"RD", "TL", "SP", "NL", "LB", "x"}

InitMeta ==
    /\ pc = "raw"
    /\ raw_content \in SeqsUpTo(MetaAlphabet, MaxMetaRaw)
    /\ metadata = NoMetadata
    /\ body_text = <<>>
    /\ result = None
    /\ IdleCall
    /\ IdleCorpus

\* self.metadata = self._extract_metadata()
ExtractMetadata ==
    /\ pc = "raw"
    /\ metadata' = _extract_metadata(<<>>, raw_content)
    /\ pc' = "metadata"
    /\ UNCHANGED <<raw_content, body_text, result, callVars, corpusVars>>

SpecMeta == InitMeta /\ [][ExtractMetadata]_vars

(***************************************************************************)
(* build_bag_of_words on token sequences: every short sequence over three  *)
(* words, and the sequences of up to MaxDistinct distinct words w1, w2,    *)
(* ... each met once in that order, followed by up to MaxExtra further     *)
(* occurrences of some of them (the first, the last two, and the words     *)
(* around the TopN-th).                                                    *)
(***************************************************************************)
Word(i) == "w" \o ToString(i)

ShortTokenSeqs == SeqsUpTo({"w1", "w2", "w3"}, MaxBagLen)

ExtraIds(n) == {1, n - 1, n, TopN, TopN + 1} \cap (1..n)

LongTokenSeqs ==
    UNION {{[i \in 1..(n + Len(e)) |-> IF i <= n THEN Word(i) ELSE Word(e[i - n])] :
                e \in SeqsUpTo(ExtraIds(n), MaxExtra)} :
           n \in 0..MaxDistinct}

InitBag ==
    /\ pc = "tokens"
    /\ tokens \in ShortTokenSeqs \cup LongTokenSeqs
    /\ n_topics = 0
    /\ n_words = 0
    /\ fault = "none"
    /\ result = None
    /\ IdleDoc
    /\ IdleCorpus

\* top_words, word_frequencies = self.build_bag_of_words(tokens)
BuildBag ==
    /\ pc = "tokens"
    /\ result' = build_bag_of_words(tokens)
    /\ pc' = "bag"
    /\ UNCHANGED <<docVars, callVars, corpusVars>>

SpecBag == InitBag /\ [][BuildBag]_vars

(***************************************************************************)
(* analyze_style on every short body text and token sequence.              *)
(***************************************************************************)
StyleAlphabet == {"The", "the", "cat", "42", "DOT", "SP"}
StyleWords == {"cat", "sat"}

InitStyle ==
    /\ pc = "tokens"
    /\ raw_content = <<>>
    /\ metadata = NoMetadata
    /\ body_text \in SeqsUpTo(StyleAlphabet, MaxStyleBody)
    /\ tokens \in SeqsUpTo(StyleWords, MaxStyleTokens)
    /\ n_topics = 0
    /\ n_words = 0
    /\ fault = "none"
    /\ result = None
    /\ IdleCorpus

\* style = self.analyze_style(tokens)
AnalyzeStyle ==
    /\ pc = "tokens"
    /\ result' = analyze_style(body_text, tokens)
    /\ pc' = "style"
    /\ UNCHANGED <<docVars, callVars, corpusVars>>

SpecStyle == InitStyle /\ [][AnalyzeStyle]_vars

(***************************************************************************)
(* extract_topics on bodies of up to MaxSentences sentences, for every     *)
(* n_topics up to MaxTopics, n_words up to MaxWords, and every call of it  *)
(* raising.                                                                *)
(***************************************************************************)
SentencePool ==
    <<(<<"The", "cat", "sat", "DOT">>), (<<"cats", "sat", "DOT">>), (<<"the", "DOT">>)>>

\* The sentences picks names, a blank after each.
RECURSIVE BodyOf(_, _)
BodyOf(picks, n) ==
    IF n = 0 THEN <<>>
    ELSE BodyOf(picks, n - 1) \o SentencePool[picks[n]] \o <<"SP">>

TopicFaults ==
    {"none", "topics.sent_tokenize", "topics.fit_transform", "topics.fit"}

InitTopics ==
    /\ pc = "body"
    /\ raw_content = <<>>
    /\ metadata = NoMetadata
    /\ \E picks \in SeqsUpTo(1..Len(SentencePool), MaxSentences) :
           body_text = BodyOf(picks, Len(picks))
    /\ tokens = <<>>
    /\ n_topics \in 1..MaxTopics
    /\ n_words \in 1..MaxWords
    /\ fault \in TopicFaults
    /\ result = None
    /\ IdleCorpus

\* topics = self.extract_topics(n_topics, n_words)
ExtractTopics ==
    /\ pc = "body"
    /\ result' = extract_topics(body_text, n_topics, n_words, fault)
    /\ pc' = "topics"
    /\ UNCHANGED <<docVars, callVars, corpusVars>>

SpecTopics == InitTopics /\ [][ExtractTopics]_vars

(***************************************************************************)
(* One document: construction, then analyze, on every short raw text, no   *)
(* call raising.                                                           *)
(***************************************************************************)
AnalyzeAlphabet == {"START", "END", "NL", "The", "cats", "good", "DOT"}

InitAnalyze ==
    /\ pc = "file"
    /\ raw_content \in SeqsUpTo(AnalyzeAlphabet, MaxAnalyzeRaw)
    /\ metadata = NoMetadata
    /\ body_text = <<>>
    /\ result = None
    /\ IdleCall
    /\ IdleCorpus

\* pg_text = ProjectGutenbergText(filepath)
Construct ==
    /\ pc = "file"
    /\ LET doc == NewDocument(<<1>>, raw_content, fault)
       IN  /\ doc.ok
           /\ metadata' = doc.val.metadata
           /\ body_text' = doc.val.body_text
    /\ pc' = "document"
    /\ UNCHANGED <<raw_content, result, callVars, corpusVars>>

\* analysis = pg_text.analyze()
Analyze ==
    /\ pc = "document"
    /\ result' = analyze([pg_id |-> <<1>>, raw_content |-> raw_content,
                          metadata |-> metadata, body_text |-> body_text], fault)
    /\ pc' = "analyzed"
    /\ UNCHANGED <<docVars, callVars, corpusVars>>

NextAnalyze == Construct \/ Analyze

SpecAnalyze == InitAnalyze /\ [][NextAnalyze]_vars

(***************************************************************************)
(* analyze_corpus on a directory holding up to MaxFiles of the files of    *)
(* FilePool, any call raising for any file.                                *)
(***************************************************************************)
FilePool == {<<1>>, <<1, 0>>, <<2>>, <<9>>}

\* What each file holds: pg1.txt and pg2.txt a body of three sentences
\* between the markers, pg10.txt and pg9.txt a text without markers.
Content(file) ==
    IF file \in {<<1>>, <<2>>}
    THEN <<"TL", "SP", "cats", "NL", "START", "NL", "cats", "good", "DOT", "SP",
           "cats", "sat", "DOT", "SP", "The", "cats", "DOT", "NL", "END">>
    ELSE <<"The", "cat", "sat", "DOT", "SP", "The", "cat", "ran", "fast", "DOT">>

InitCorpus ==
    /\ pc = "start"
    /\ discovered \in {S \in SUBSET FilePool : Cardinality(S) <= MaxFiles}
    /\ text_files = <<>>
    /\ idx = 0
    /\ total_texts = 0
    /\ texts = <<>>
    /\ attempts = <<>>
    /\ result = None
    /\ IdleDoc
    /\ IdleCall

\* text_files = sorted(...); without files the function returns None, with
\* files it sets up results.
Discover ==
    /\ pc = "start"
    /\ text_files' = sorted(discovered)
    /\ IF text_files' = <<>>
       THEN /\ pc' = "returned"
            /\ UNCHANGED total_texts
       ELSE /\ pc' = "loop"
            /\ total_texts' = Len(text_files')
    /\ texts' = <<>>
    /\ UNCHANGED <<docVars, callVars, result, discovered, idx, attempts>>

\* What the body of the for loop's try does for a file: the analysis, or
\* the exception that reaches the except clause.
TryFile(file, flt) ==
    LET pg_text == NewDocument(file, Content(file), flt)
    IN  IF pg_text.ok THEN analyze(pg_text.val, flt) ELSE pg_text

\* One turn of the for loop.
ProcessFile ==
    /\ pc = "loop"
    /\ idx < Len(text_files)
    /\ \E flt \in Faults :
           LET filepath == text_files[idx + 1]
               analysis == TryFile(filepath, flt)
           IN  /\ texts' = IF analysis.ok THEN Append(texts, analysis.val) ELSE texts
               /\ attempts' = Append(attempts,
                                  [file |-> filepath, fault |-> flt,
                                   raised |-> ~analysis.ok])
    /\ idx' = idx + 1
    /\ UNCHANGED <<pc, docVars, callVars, result, discovered, text_files, total_texts>>

\* json.dump(results, f); return results
SaveReport ==
    /\ pc = "loop"
    /\ idx = Len(text_files)
    /\ result' = [corpus_info |-> [total_texts |-> total_texts, analysis_date |-> None],
                  texts |-> texts]
    /\ pc' = "done"
    /\ UNCHANGED <<docVars, callVars, corpusVars>>

NextCorpus == Discover \/ ProcessFile \/ SaveReport

SpecCorpus == InitCorpus /\ [][NextCorpus]_vars

(***************************************************************************)
(* C4: _extract_body returns the empty text when a marker is absent, and   *)
(* otherwise exactly the text strictly between the end of the start        *)
(* marker's line and the start of the end marker, without leading or       *)
(* trailing whitespace and without a leading byte-order mark.              *)
(***************************************************************************)
\* The index after the start marker's line: after its newline, or the end
\* of the text when no newline follows the marker.
AfterStartLine(raw) ==
    LET s == find(raw, "START", 0)
        nl == {i \in s..(Len(raw) - 1) : raw[i + 1] = "NL"}
    IN  IF nl = {} THEN Len(raw) ELSE Min(nl) + 1

\* A text without leading whitespace or byte-order mark and without
\* trailing whitespace.
Cleaned(s) == rstrip(lstrip(s, Whitespace \cup {"BOM"}), Whitespace)

ClaimedBody(raw) ==
    IF find(raw, "START", 0) = -1 \/ find(raw, "END", 0) = -1
    THEN <<>>
    ELSE Cleaned(Slice(raw, AfterStartLine(raw), find(raw, "END", 0)))

C4_BodyIsTextBetweenMarkers ==
    pc = "body" => body_text = ClaimedBody(raw_content)

(***************************************************************************)
(* C6: when the text has a Release date: line, release_date is the trimmed *)
(* text of that line after the label, up to the first "[" of the line or,  *)
(* without one, up to the end of the line.  (Stated for the lines that     *)
(* carry a date: the trimmed text is not empty.)                           *)
(***************************************************************************)
ClaimedDate(raw) ==
    LET p == Min({i \in 1..Len(raw) : raw[i] = "RD"})
        stops == {i \in (p + 1)..Len(raw) : raw[i] \in {"NL", "LB"}}
        stop == IF stops = {} THEN Len(raw) + 1 ELSE Min(stops)
    IN  strip(SubSeq(raw, p + 1, stop - 1))

C6_ReleaseDateIsRestOfLine ==
    (/\ pc = "metadata"
     /\ \E i \in 1..Len(raw_content) : raw_content[i] = "RD"
     /\ ClaimedDate(raw_content) # <<>>)
        => metadata.release_date = Some(ClaimedDate(raw_content))

(***************************************************************************)
(* C7: the values of word_frequencies sum to the length of the token       *)
(* sequence, each distinct token being mapped to its number of occurrences *)
(* and none left out; every top_words entry's frequency is its count       *)
(* divided by that length (there is no entry when the sequence is empty).  *)
(***************************************************************************)
Occurrences(toks, w) == Cardinality({i \in 1..Len(toks) : toks[i] = w})

\* The distinct tokens, each at the place of its first occurrence.
DistinctTokens(toks) ==
    LET IsNew(i) == \A j \in 1..(i - 1) : toks[j] # toks[i]
        at == SelectSeq([i \in 1..Len(toks) |-> i], IsNew)
    IN  [r \in 1..Len(at) |-> toks[at[r]]]

\* f[ks[lo]] + ... + f[ks[hi]]
RECURSIVE SumBetween(_, _, _, _)
SumBetween(f, ks, lo, hi) ==
    IF lo > hi THEN 0
    ELSE IF lo = hi THEN f[ks[lo]]
    ELSE LET mid == (lo + hi) \div 2
         IN  SumBetween(f, ks, lo, mid) + SumBetween(f, ks, mid + 1, hi)

C7_FrequenciesSumToTokenCount ==
    pc = "bag" =>
        /\ DOMAIN result.word_frequencies = Range(tokens)
        /\ \A w \in Range(tokens) :
               result.word_frequencies[w] = Occurrences(tokens, w)
        /\ SumBetween(result.word_frequencies, DistinctTokens(tokens),
                      1, Len(DistinctTokens(tokens))) = Len(tokens)
        /\ \A i \in 1..Len(result.top_words) :
               LET e == result.top_words[i]
               IN  /\ e.count = Occurrences(tokens, e.word)
                   /\ e.frequency[2] # 0
                   /\ FracEq(e.frequency, Frac(e.count, Len(tokens)))
        /\ (tokens = <<>> => result.top_words = <<>>)

\* More than TopN distinct tokens, one of them met more than once.
C7_Witness ==
    /\ pc = "bag"
    /\ Cardinality(Range(tokens)) > TopN
    /\ Len(tokens) > Cardinality(Range(tokens))
    /\ Len(result.top_words) = TopN

(***************************************************************************)
(* C8: top_words has min(TopN, number of distinct tokens) entries, sorted  *)
(* by count descending, entries of equal count in the order their words    *)
(* are first met in the sequence, and no word left out has a greater count *)
(* than a word included.  (Stated on neighbouring entries and on the last  *)
(* entry: the orders are transitive.)                                      *)
(***************************************************************************)
FirstIndex(toks, w) == Min({i \in 1..Len(toks) : toks[i] = w})

C8_TopWordsRanked ==
    pc = "bag" =>
        LET top == result.top_words
            distinct == Cardinality(Range(tokens))
            included == {top[i].word : i \in 1..Len(top)}
        IN  /\ Len(top) = IF distinct < TopN THEN distinct ELSE TopN
            /\ Cardinality(included) = Len(top)
            /\ included \subseteq Range(tokens)
            /\ \A i \in 1..(Len(top) - 1) :
                   \/ Occurrences(tokens, top[i].word)
                          > Occurrences(tokens, top[i + 1].word)
                   \/ /\ Occurrences(tokens, top[i].word)
                             = Occurrences(tokens, top[i + 1].word)
                      /\ FirstIndex(tokens, top[i].word)
                             < FirstIndex(tokens, top[i + 1].word)
            /\ \A w \in Range(tokens) \ included :
                   Occurrences(tokens, w)
                       <= Occurrences(tokens, top[Len(top)].word)

\* Words are left out, a word met late is ranked first, and two entries
\* have the same count.
C8_Witness ==
    /\ pc = "bag"
    /\ Cardinality(Range(tokens)) > TopN
    /\ Len(result.top_words) = TopN
    /\ FirstIndex(tokens, result.top_words[1].word) > TopN
    /\ result.top_words[1].count > result.top_words[2].count
    /\ result.top_words[2].count = result.top_words[3].count

(***************************************************************************)
(* C1: analyze_corpus attempts every discovered file exactly once, in the  *)
(* lexicographic order of the file names, whatever raises for any of them, *)
(* and texts holds exactly the results of the files that did not fail, in  *)
(* that order.                                                             *)
(***************************************************************************)
\* The attempts that did not raise.
Succeeded(as) == SelectSeq(as, LAMBDA a : ~a.raised)

C1_EveryFileAttemptedInOrder ==
    /\ pc \in {"loop", "done"} =>
        /\ Len(text_files) = Cardinality(discovered)
        /\ Range(text_files) = discovered
        /\ \A i \in 1..Len(text_files) : \A j \in (i + 1)..Len(text_files) :
               LexLess(text_files[i], text_files[j])
        /\ Len(attempts) = idx
        /\ \A i \in 1..idx : attempts[i].file = text_files[i]
        /\ Len(texts) = Len(Succeeded(attempts))
        /\ \A i \in 1..Len(texts) :
               LET a == Succeeded(attempts)[i]
               IN  /\ texts[i].id = a.file
                   /\ texts[i] = TryFile(a.file, a.fault).val
    /\ pc = "done" =>
        /\ idx = Len(text_files)
        /\ result.texts = texts

\* Three files whose lexicographic order is not that of their numbers; the
\* first and the last fail, the one between them does not.
C1_Witness ==
    /\ pc = "done"
    /\ text_files = <<(<<1>>), (<<1, 0>>), (<<2>>)>>
    /\ attempts[1].raised
    /\ ~attempts[2].raised
    /\ attempts[3].raised
    /\ Len(texts) = 1

(***************************************************************************)
(* C2, as claimed: when one of the four analyzers (frequency, sentiment,   *)
(* style, topic) raises, the document's result is still produced, with the *)
(* other analyzers' fields as they are computed without the failure.       *)
(* (The claim says more, that the failing analyzer's own field is empty or *)
(* zeroed; this part of it is enough to decide it.)                        *)
(***************************************************************************)
AnalyzerFaults ==
    {"build_bag_of_words", "analyze_sentiment", "analyze_style",
     "topics.sent_tokenize", "topics.fit_transform", "topics.fit"}

ResultFields ==
    {"id", "metadata", "top_words", "word_frequencies", "sentiment",
     "style_metrics", "topics"}

\* The fields of the result that the call belongs to.
OwnFields(flt) ==
    IF flt = "build_bag_of_words" THEN {"top_words", "word_frequencies"}
    ELSE IF flt = "analyze_sentiment" THEN {"sentiment"}
    ELSE IF flt = "analyze_style" THEN {"style_metrics"}
    ELSE {"topics"}

C2_AnalyzerFailureKeepsResult ==
    \A i \in 1..Len(attempts) :
        LET a == attempts[i]
            clean == TryFile(a.file, "none").val
        IN  a.fault \in AnalyzerFaults =>
                \E j \in 1..Len(texts) :
                    /\ texts[j].id = a.file
                    /\ \A f \in ResultFields \ OwnFields(a.fault) :
                           texts[j][f] = clean[f]

(***************************************************************************)
(* C2, amended: only a failure of the topic extractor's vectorisation or   *)
(* fit is contained: the result is still produced, with an empty topic     *)
(* list and every other field as computed without the failure.  When       *)
(* preprocessing, the frequency, sentiment or style analyzer, or the topic *)
(* extractor's sentence split raises, analyze raises: no result is         *)
(* produced for the document and analyze_corpus skips it, as it does when  *)
(* the construction of the Document fails.                                 *)
(***************************************************************************)
ContainedFaults == {"topics.fit_transform", "topics.fit"}

C2_OnlyTopicFitFailureIsContained ==
    \A i \in 1..Len(attempts) :
        LET a == attempts[i]
            clean == TryFile(a.file, "none").val
            kept == {j \in 1..Len(texts) : texts[j].id = a.file}
        IN  /\ a.fault \in ContainedFaults =>
                /\ ~a.raised
                /\ \E j \in kept : texts[j] = [clean EXCEPT !.topics = <<>>]
            /\ a.fault \in Faults \ (ContainedFaults \cup {"none"}) =>
                /\ a.raised
                /\ kept = {}
            /\ a.fault = "none" =>
                /\ ~a.raised
                /\ \E j \in kept : texts[j] = clean

\* The fit fails for a document that has topics without the failure, and
\* the sentiment analyzer fails for another document.
C2_Witness ==
    /\ pc = "done"
    /\ \E i \in 1..Len(attempts) :
           /\ attempts[i].fault = "topics.fit"
           /\ TryFile(attempts[i].file, "none").val.topics # <<>>
           /\ \E j \in 1..Len(texts) :
                  texts[j].id = attempts[i].file /\ texts[j].topics = <<>>
    /\ \E i \in 1..Len(attempts) :
           attempts[i].fault = "analyze_sentiment" /\ attempts[i].raised

(***************************************************************************)
(* C3: in the report, the document count of corpus_info is the number of   *)
(* results in texts, also when documents failed and were skipped.          *)
(***************************************************************************)
C3_CountIsNumberOfResults ==
    pc = "done" => result.corpus_info.total_texts = Len(result.texts)

(***************************************************************************)
(* C5: for a raw text without the start marker or without the end marker,  *)
(* analyze returns without raising, and returns the degenerate record: no  *)
(* top words, no word frequencies, every style count and ratio zero, the   *)
(* sentence-level sentiment mean, std, min and max zero, no topics.        *)
(***************************************************************************)
IsZero(x) == x[1] = 0 /\ x[2] # 0

C5_MissingMarkersGiveDegenerateRecord ==
    (pc = "analyzed" /\ (find(raw_content, "START", 0) = -1
                         \/ find(raw_content, "END", 0) = -1))
        => /\ result.ok
           /\ result.val.top_words = <<>>
           /\ DOMAIN result.val.word_frequencies = {}
           /\ \A f \in DOMAIN result.val.style_metrics :
                  result.val.style_metrics[f] = 0
           /\ \A f \in {"mean", "std", "min", "max"} :
                  IsZero(result.val.sentiment.sentence_sentiments[f])
           /\ result.val.topics = <<>>

\* A text of two sentences with content words and no end marker.
C5_Witness ==
    /\ pc = "analyzed"
    /\ find(raw_content, "END", 0) = -1
    /\ Len(sent_tokenize(raw_content)) = 2
    /\ preprocess(raw_content) # <<>>
    /\ result.ok
    /\ result.val.style_metrics.total_sentences = 0

(***************************************************************************)
(* C9: extract_topics(N, K) returns the empty list without attempting a    *)
(* fit when the body has fewer than N sentences, attempts the fit when it  *)
(* has N or more, returns the empty list when the vectorisation or the fit *)
(* raises, and on success returns N records with topic_id 1..N in order.   *)
(***************************************************************************)
C9_TopicsGuardAndFallback ==
    (pc = "topics" /\ fault # "topics.sent_tokenize") =>
        LET sentences == sent_tokenize(body_text)
            success == /\ Len(sentences) >= n_topics
                       /\ fault = "none"
                       /\ vectorize(sentences).keys # <<>>
        IN  /\ result.ret.ok
            /\ Len(sentences) < n_topics =>
                   result.ret.val = <<>> /\ ~result.fit_attempted
            /\ Len(sentences) >= n_topics => result.fit_attempted
            /\ fault \in {"topics.fit_transform", "topics.fit"} =>
                   result.ret.val = <<>>
            /\ ~success => result.ret.val = <<>>
            /\ success =>
                   /\ Len(result.ret.val) = n_topics
                   /\ \A i \in 1..n_topics : result.ret.val[i].topic_id = i

\* Exactly N = 3 sentences, and the fit succeeds.
C9_Witness ==
    /\ pc = "topics"
    /\ n_topics = 3
    /\ Len(sent_tokenize(body_text)) = 3
    /\ fault = "none"
    /\ result.fit_attempted
    /\ Len(result.ret.val) = 3

(***************************************************************************)
(* C10: analyze_style returns type_token_ratio = unique / total of the     *)
(* filtered tokens and vocabulary_richness = unique / total of the         *)
(* unfiltered alphabetic tokens (each as round(x, 4) gives it: the nearest *)
(* multiple of 1/10000), each within [0, 1] and 0 when its total is 0;     *)
(* the counts are non-negative integers with unique <= total for both      *)
(* vocabularies.                                                           *)
(***************************************************************************)
\* r / 10000 is a / b to the nearest 1/10000, and 0 when b is 0.
IsRatio(r, a, b) ==
    IF b = 0 THEN r = 0
    ELSE /\ 2 * (r * b - 10000 * a) <= b
         /\ 2 * (10000 * a - r * b) <= b

=============================================================================
